---- MODULE Spec2Model ----
(***************************************************************************)
(* Khaen helper: hole layout, preset-chord synthesis, chord analysis and   *)
(* the click / preset / MIDI interaction logic of src/App.tsx.             *)
(*                                                                         *)
(* src/App.tsx holds two App components.  The first (lines 1-707) keeps    *)
(* the active pitches as a list  activeNotes : number[]  ("list" variant); *)
(* the second (lines 708-1401) keeps the set of active hole ids            *)
(* activeHoleIds : Set<string>  ("holes" variant).  The variable `variant` *)
(* says which component is mounted; it never changes.                      *)
(*                                                                         *)
(* Strings that the code builds or inspects character by character (note   *)
(* names, chord names) are sequences of one-character strings.             *)
(* JavaScript arrays are 0-based, TLA+ sequences 1-based: a 0-based index  *)
(* i of the code is position i+1 here.                                     *)
(***************************************************************************)
EXTENDS Integers, Sequences, FiniteSets, TLC

\* ------------------------------------------------------------------------
\* Bounds of the model (inputs the environment may send)
\* ------------------------------------------------------------------------
\* how many entries of the key <select> the user picks from
MaxKeyRoots == 1
\* how many scale degrees have their chord buttons pressed
MaxDegrees == 2
\* how many of the modifier buttons the user presses
MaxMods == 1
\* how many of the 16 holes the user clicks
MaxClickHoles == 2
\* how many distinct MIDI note numbers the controller sends
MaxMidiNotes == 2
\* how many copies of one pitch class the activeNotes list may hold
MaxDup == 2
\* how many initMIDI calls may be awaiting requestMIDIAccess at once
MaxPending == 1
\* how many of the modifier buttons are pressed when only presets are exercised
MaxPresetMods == 3
\* how many pitch classes sound at once when only the analysis is exercised
MaxChordNotes == 3
\* the longest sequence of modifier toggles whose orders are compared
MaxModSeq == 3
\* the MIDI input devices that can be plugged in
MaxDevices == 2

\* ------------------------------------------------------------------------
\* Constants and types
\* ------------------------------------------------------------------------
SHARPS ==
  << <<"C">>, <<"C","#">>, <<"D">>, <<"D","#">>, <<"E">>, <<"F">>,
     <<"F","#">>, <<"G">>, <<"G","#">>, <<"A">>, <<"A","#">>, <<"B">> >>

FLATS ==
  << <<"C">>, <<"D","b">>, <<"D">>, <<"E","b">>, <<"E">>, <<"F">>,
     <<"G","b">>, <<"G">>, <<"A","b">>, <<"A">>, <<"B","b">>, <<"B">> >>

\* the tables with degree V of the minor mode taken as Major
SCALES_majorFifthInMinor ==
  [ major |-> [ intervals |-> <<0, 2, 4, 5, 7, 9, 11>>,
                qualities |-> <<"Maj", "m", "m", "Maj", "Maj", "m", "dim">> ],
    minor |-> [ intervals |-> <<0, 2, 3, 5, 7, 8, 10>>,
                qualities |-> <<"m", "dim", "Maj", "m", "Maj", "Maj", "Maj">> ] ]

SCALES ==
  [ major |-> [ intervals |-> <<0, 2, 4, 5, 7, 9, 11>>,
                qualities |-> <<"Maj", "m", "m", "Maj", "Maj", "m", "dim">> ],
    minor |-> [ intervals |-> <<0, 2, 3, 5, 7, 8, 10>>,
                qualities |-> <<"m", "dim", "Maj", "m", "m", "Maj", "Maj">> ] ]

LEFT_COL ==
  << [id |-> "L8", degIndex |-> 6], [id |-> "L7", degIndex |-> 5],
     [id |-> "L6", degIndex |-> 6], [id |-> "L5", degIndex |-> 5],
     [id |-> "L4", degIndex |-> 4], [id |-> "L3", degIndex |-> 3],
     [id |-> "L2", degIndex |-> 1], [id |-> "L1", degIndex |-> 2] >>

RIGHT_COL ==
  << [id |-> "R8", degIndex |-> 0], [id |-> "R7", degIndex |-> 4],
     [id |-> "R6", degIndex |-> 3], [id |-> "R5", degIndex |-> 1],
     [id |-> "R4", degIndex |-> 0], [id |-> "R3", degIndex |-> 6],
     [id |-> "R2", degIndex |-> 2], [id |-> "R1", degIndex |-> 0] >>

ALL_HOLES == LEFT_COL \o RIGHT_COL

\* the <option> values of the key <select>, in document order
KeyOptions ==
  << <<"C">>, <<"D","b">>, <<"D">>, <<"E","b">>, <<"E">>, <<"F">>,
     <<"G","b">>, <<"G">>, <<"A","b">>, <<"A">>, <<"B","b">>, <<"B">> >>

\* the modifier buttons of the list variant
ModButtonsList ==
  <<"add9", "add11", "add13", "add6", "no3", "no5", "sus4", "sus2">>

\* the modifier buttons of the holes variant
ModButtonsHoles ==
  <<"add9", "add11", "add13", "add6", "no3", "no5", "sus4", "sus2",
    "aug", "dim_mod">>

\* ------------------------------------------------------------------------
\* Small helpers on sequences
\* ------------------------------------------------------------------------
Range(s) == {s[i] : i \in DOMAIN s}

\* Array.prototype.includes
Includes(s, x) == \E i \in DOMAIN s : s[i] = x

\* Array.prototype.indexOf, 0-based, -1 when absent
IndexOf(s, x) ==
  IF Includes(s, x) THEN (CHOOSE i \in DOMAIN s : s[i] = x /\ \A j \in 1..(i-1) : s[j] # x) - 1
  ELSE -1

\* Array.prototype.filter(i => i is not in the set drop)
Without(s, drop) == SelectSeq(s, LAMBDA x : x \notin drop)

\* String.prototype.includes on character sequences
StrIncludes(s, sub) ==
  \E i \in 1..(Len(s) - Len(sub) + 1) : SubSeq(s, i, i + Len(sub) - 1) = sub

\* String.prototype.replace(c, rep) with a one-character pattern: the first
\* occurrence only
StrReplace(s, c, rep) ==
  IF Includes(s, c)
  THEN LET i == IndexOf(s, c) + 1
       IN SubSeq(s, 1, i - 1) \o rep \o SubSeq(s, i + 1, Len(s))
  ELSE s

\* ascending sequence of the elements of a finite set of integers
RECURSIVE SortedSeq(_)
SortedSeq(S) ==
  IF S = {} THEN <<>>
  ELSE LET m == CHOOSE x \in S : \A y \in S : x <= y
       IN <<m>> \o SortedSeq(S \ {m})

\* ------------------------------------------------------------------------
\* Utilities
\* ------------------------------------------------------------------------
\* getNoteVal: the names the program passes are already capitalised, so the
\* charAt(0).toUpperCase() step is the identity on them
getNoteVal(name) ==
  IF name = <<>> THEN -1
  ELSE LET idx == IndexOf(SHARPS, name)
       IN IF idx = -1 THEN IndexOf(FLATS, name) ELSE idx

getDisplayNote(val, kRoot, kType) ==
  LET useFlat ==
        \/ kRoot \in { <<"F">>, <<"B","b">>, <<"E","b">>, <<"A","b">>, <<"D","b">>, <<"G","b">> }
        \/ /\ kType = "minor"
           /\ kRoot \in { <<"C">>, <<"F">>, <<"B","b">>, <<"E","b">>, <<"G">>, <<"D">> }
  IN IF useFlat THEN FLATS[(val % 12) + 1] ELSE SHARPS[(val % 12) + 1]

\* currentKeyNotes without the reduction modulo 12
KeyNotes_noWrap(kRoot, kType) ==
  LET rootVal == getNoteVal(kRoot)
      intervals == SCALES[kType].intervals
  IN [i \in 1..7 |-> rootVal + intervals[i]]

\* useMemo currentKeyNotes, as a function of the key
KeyNotes(kRoot, kType) ==
  LET rootVal == getNoteVal(kRoot)
      intervals == SCALES[kType].intervals
  IN [i \in 1..7 |-> (rootVal + intervals[i]) % 12]

\* ------------------------------------------------------------------------
\* Values of the nullable fields
\* ------------------------------------------------------------------------
\* null in a number | null field (rootVal, hintRoot); pitch classes are 0..11
Null == -1

\* `undefined`: a byte read past the end of event.data
Undefined == -1

\* NaN: undefined % 12
NaN == -2

NoSelection ==
  [rootVal |-> Null, quality |-> "null", type |-> "null", modifiers |-> <<>>]

\* ------------------------------------------------------------------------
\* Chord synthesis: the useEffect that turns the selection into active notes
\* ------------------------------------------------------------------------
\* the base triad with the thirds of Maj and m swapped
BaseTriad_swappedThirds(q) ==
  IF q = "Maj" THEN <<0, 3, 7>>
  ELSE IF q = "m" THEN <<0, 4, 7>>
  ELSE IF q = "dim" THEN <<0, 3, 6>>
  ELSE <<0>>

\* let intervals = [0]; then the third and fifth of the quality
BaseTriad(q) ==
  IF q = "Maj" THEN <<0, 4, 7>>
  ELSE IF q = "m" THEN <<0, 3, 7>>
  ELSE IF q = "dim" THEN <<0, 3, 6>>
  ELSE <<0>>

\* root, third, fifth and seventh taken from the scale degrees of the key
DiatonicSeventh(root, degreeIdx, keyNotes) ==
  LET deg3 == keyNotes[((degreeIdx + 2) % 7) + 1]
      deg5 == keyNotes[((degreeIdx + 4) % 7) + 1]
      deg7 == keyNotes[((degreeIdx + 6) % 7) + 1]
  IN << 0, (deg3 - root + 12) % 12, (deg5 - root + 12) % 12, (deg7 - root + 12) % 12 >>

\* list variant: the seventh inferred from the quality (lines 116-129)
QualitySeventh(intervals, q, type) ==
  IF type = "7th"
  THEN IF q = "Maj" THEN Append(intervals, 11)
       ELSE IF q = "m" THEN Append(intervals, 10)
       ELSE IF q = "dim" THEN Append(intervals, 10)
       ELSE intervals
  ELSE intervals

\* list variant: the seventh left as the quality gave it
RefineSeventhList_qualityOnly(intervals, root, type, kType, keyNotes) == intervals

\* list variant: the diatonic refinement (lines 133-180)
RefineSeventhList(intervals, root, type, kType, keyNotes) ==
  LET degreeIdx == IndexOf(keyNotes, root)
  IN IF degreeIdx # -1 /\ type = "7th"
     THEN LET v7 == IF kType = "major" /\ degreeIdx = 4 /\ Includes(intervals, 11)
                    THEN Append(Without(intervals, {11}), 10)
                    ELSE intervals
          IN \* both the minor branch and the else branch replace the list
             DiatonicSeventh(root, degreeIdx, keyNotes)
     ELSE intervals

\* one step of modifiers.forEach with a sus4 that keeps the third
ApplyModifierList_sus4KeepsThird(intervals, m) ==
  IF m = "add9" THEN Append(intervals, 2)
  ELSE IF m = "add11" THEN Append(intervals, 5)
  ELSE IF m = "add13" THEN Append(intervals, 9)
  ELSE IF m = "add6" THEN Append(intervals, 9)
  ELSE IF m = "no3" THEN Without(intervals, {3, 4})
  ELSE IF m = "no5" THEN Without(intervals, {7, 6})
  ELSE IF m = "sus4" THEN Append(intervals, 5)
  ELSE IF m = "sus2" THEN Without(Append(intervals, 2), {3, 4})
  ELSE intervals

\* list variant: one step of modifiers.forEach
ApplyModifierList(intervals, m) ==
  IF m = "add9" THEN Append(intervals, 2)
  ELSE IF m = "add11" THEN Append(intervals, 5)
  ELSE IF m = "add13" THEN Append(intervals, 9)
  ELSE IF m = "add6" THEN Append(intervals, 9)
  ELSE IF m = "no3" THEN Without(intervals, {3, 4})
  ELSE IF m = "no5" THEN Without(intervals, {7, 6})
  ELSE IF m = "sus4" THEN Without(Append(intervals, 5), {3, 4})
  ELSE IF m = "sus2" THEN Without(Append(intervals, 2), {3, 4})
  ELSE intervals

\* modifiers.forEach: a Set iterates in insertion order
RECURSIVE ApplyModifiersList(_, _)
ApplyModifiersList(intervals, mods) ==
  IF mods = <<>> THEN intervals
  ELSE ApplyModifiersList(ApplyModifierList(intervals, Head(mods)), Tail(mods))

\* list variant: targetVals of the effect (selection.rootVal and quality set)
TargetValsList(sel, kRoot, kType) ==
  LET keyNotes == KeyNotes(kRoot, kType)
      root == sel.rootVal
      i1 == BaseTriad(sel.quality)
      i2 == QualitySeventh(i1, sel.quality, sel.type)
      i3 == RefineSeventhList(i2, root, sel.type, kType, keyNotes)
      i4 == ApplyModifiersList(i3, sel.modifiers)
  IN [k \in 1..Len(i4) |-> (root + i4[k]) % 12]

\* holes variant: the seventh (lines 835-846)
SeventhHoles(intervals, root, type, keyNotes) ==
  LET degreeIdx == IndexOf(keyNotes, root)
  IN IF degreeIdx # -1 /\ type = "7th"
     THEN DiatonicSeventh(root, degreeIdx, keyNotes)
     ELSE intervals

\* holes variant: modifiers, in the fixed order of the code (lines 849-873)
ApplyModifiersHoles(intervals, mods) ==
  LET has(m) == Includes(mods, m)
      a1 == IF has("no3") THEN Without(intervals, {3, 4}) ELSE intervals
      a2 == IF has("no5") THEN Without(a1, {7, 6}) ELSE a1
      a3 == IF has("sus4") THEN Without(Append(a2, 5), {3, 4}) ELSE a2
      a4 == IF has("sus2") THEN Without(Append(a3, 2), {3, 4}) ELSE a3
      a5 == IF has("aug") THEN Without(Append(a4, 8), {7, 6}) ELSE a4
      a6 == IF has("dim_mod") THEN Without(Append(a5, 6), {7, 8}) ELSE a5
      a7 == IF has("add9") THEN Append(a6, 2) ELSE a6
      a8 == IF has("add11") THEN Append(a7, 5) ELSE a7
      a9 == IF has("add13") THEN Append(a8, 9) ELSE a8
  IN IF has("add6") THEN Append(a9, 9) ELSE a9

\* holes variant: targetVals, de-duplicated
TargetValsHoles(sel, kRoot, kType) ==
  LET keyNotes == KeyNotes(kRoot, kType)
      root == sel.rootVal
      i1 == BaseTriad(sel.quality)
      i2 == SeventhHoles(i1, root, sel.type, keyNotes)
      i3 == ApplyModifiersHoles(i2, sel.modifiers)
  IN {(root + i3[k]) % 12 : k \in 1..Len(i3)}

\* holes variant: every hole whose note under the key is a target value
HolesSounding(vals, keyNotes) ==
  {ALL_HOLES[k].id : k \in {j \in DOMAIN ALL_HOLES : keyNotes[ALL_HOLES[j].degIndex + 1] \in vals}}

\* useMemo activeNoteValues: the pitch classes of the active holes
ActiveNoteValues(holeIds, keyNotes) ==
  {keyNotes[ALL_HOLES[k].degIndex + 1] : k \in {j \in DOMAIN ALL_HOLES : ALL_HOLES[j].id \in holeIds}}

\* ------------------------------------------------------------------------
\* Chord analysis: useMemo analyzedChord
\* ------------------------------------------------------------------------
\* the shape predicates without the no-fifth branch
BaseTypeList_noNoFifth(ints) ==
  LET hasM3 == 4 \in ints
      hasm3 == 3 \in ints
      hasP5 == 7 \in ints
      hasd5 == 6 \in ints
      hasP4 == 5 \in ints
      hasM2 == 2 \in ints
  IN IF hasm3 /\ hasd5 /\ ~hasP5 THEN "dim"
     ELSE IF hasm3 /\ hasP5 THEN "m"
     ELSE IF hasM3 /\ hasP5 THEN "Maj"
     ELSE IF hasP4 /\ hasP5 /\ ~hasm3 /\ ~hasM3 THEN "sus4"
     ELSE IF hasM2 /\ hasP5 /\ ~hasm3 /\ ~hasM3 THEN "sus2"
     ELSE IF hasP5 /\ Cardinality(ints) = 2 THEN "5"
     ELSE ""

\* the shape predicates without the power-chord branch
BaseTypeList_noPower(ints) ==
  LET hasM3 == 4 \in ints
      hasm3 == 3 \in ints
      hasP5 == 7 \in ints
      hasd5 == 6 \in ints
      hasP4 == 5 \in ints
      hasM2 == 2 \in ints
  IN IF hasm3 /\ hasd5 /\ ~hasP5 THEN "dim"
     ELSE IF hasm3 /\ hasP5 THEN "m"
     ELSE IF hasM3 /\ hasP5 THEN "Maj"
     ELSE IF hasP4 /\ hasP5 /\ ~hasm3 /\ ~hasM3 THEN "sus4"
     ELSE IF hasM2 /\ hasP5 /\ ~hasm3 /\ ~hasM3 THEN "sus2"
     ELSE IF ~hasP5 /\ ~hasd5
          THEN (IF hasM3 THEN "no5Maj" ELSE IF hasm3 THEN "no5m" ELSE "")
     ELSE ""

\* list variant: the shape predicates, first match wins; "" when none holds
BaseTypeList(ints) ==
  LET hasM3 == 4 \in ints
      hasm3 == 3 \in ints
      hasP5 == 7 \in ints
      hasd5 == 6 \in ints
      hasP4 == 5 \in ints
      hasM2 == 2 \in ints
  IN IF hasm3 /\ hasd5 /\ ~hasP5 THEN "dim"
     ELSE IF hasm3 /\ hasP5 THEN "m"
     ELSE IF hasM3 /\ hasP5 THEN "Maj"
     ELSE IF hasP4 /\ hasP5 /\ ~hasm3 /\ ~hasM3 THEN "sus4"
     ELSE IF hasM2 /\ hasP5 /\ ~hasm3 /\ ~hasM3 THEN "sus2"
     ELSE IF ~hasP5 /\ ~hasd5
          THEN (IF hasM3 THEN "no5Maj" ELSE IF hasm3 THEN "no5m" ELSE "")
     ELSE IF hasP5 /\ Cardinality(ints) = 2 THEN "5"
     ELSE ""

\* holes variant: the shape predicates, with the augmented shape
BaseTypeHoles(ints) ==
  LET hasM3 == 4 \in ints
      hasm3 == 3 \in ints
      hasP5 == 7 \in ints
      hasd5 == 6 \in ints
      hasAug5 == 8 \in ints
      hasP4 == 5 \in ints
      hasM2 == 2 \in ints
  IN IF hasm3 /\ hasd5 /\ ~hasP5 THEN "dim"
     ELSE IF hasm3 /\ hasP5 THEN "m"
     ELSE IF hasM3 /\ hasAug5 THEN "aug"
     ELSE IF hasM3 /\ hasP5 THEN "Maj"
     ELSE IF hasP4 /\ hasP5 /\ ~hasm3 /\ ~hasM3 THEN "sus4"
     ELSE IF hasM2 /\ hasP5 /\ ~hasm3 /\ ~hasM3 THEN "sus2"
     ELSE IF ~hasP5 /\ ~hasd5 /\ ~hasAug5
          THEN (IF hasM3 THEN "no5Maj" ELSE IF hasm3 THEN "no5m" ELSE "")
     ELSE IF hasP5 /\ Cardinality(ints) = 2 THEN "5"
     ELSE ""

\* the seventh / plain-triad suffix with the half-diminished seventh named
\* like the fully diminished one
SeventhName_noHalfDim(rName, ints, baseType) ==
  LET hasm7 == 10 \in ints
      hasM7 == 11 \in ints
      hasdim7 == 9 \in ints
  IN IF hasm7
     THEN IF baseType \in {"Maj", "no5Maj"} THEN rName \o <<"7">>
          ELSE IF baseType \in {"m", "no5m"} THEN rName \o <<"m","7">>
          ELSE IF baseType = "dim" THEN rName \o <<"d","i","m","7">>
          ELSE IF baseType = "sus4" THEN rName \o <<"7","s","u","s","4">>
          ELSE IF baseType = "sus2" THEN rName \o <<"7","s","u","s","2">>
          ELSE IF baseType = "aug" THEN rName \o <<"7","(","#","5",")">>
          ELSE rName
     ELSE IF hasM7
     THEN IF baseType \in {"m", "no5m"} THEN rName \o <<"m","(","m","a","j","7",")">>
          ELSE IF baseType = "aug" THEN rName \o <<"m","a","j","7","(","#","5",")">>
          ELSE rName \o <<"m","a","j","7">>
     ELSE IF hasdim7 /\ baseType = "dim" THEN rName \o <<"d","i","m","7">>
     ELSE IF baseType = "m" THEN rName \o <<"m">>
          ELSE IF baseType = "dim" THEN rName \o <<"d","i","m">>
          ELSE IF baseType = "aug" THEN rName \o <<"a","u","g">>
          ELSE IF baseType = "sus4" THEN rName \o <<"s","u","s","4">>
          ELSE IF baseType = "sus2" THEN rName \o <<"s","u","s","2">>
          ELSE IF baseType = "5" THEN rName \o <<"5">>
          ELSE IF baseType = "no5m" THEN rName \o <<"m">>
          ELSE rName

\* the name after the seventh / plain-triad suffix.  The list variant has no
\* "aug" base type and no "aug" branches; on its base types the two texts agree
SeventhName(rName, ints, baseType) ==
  LET hasm7 == 10 \in ints
      hasM7 == 11 \in ints
      hasdim7 == 9 \in ints
  IN IF hasm7
     THEN IF baseType \in {"Maj", "no5Maj"} THEN rName \o <<"7">>
          ELSE IF baseType \in {"m", "no5m"} THEN rName \o <<"m","7">>
          ELSE IF baseType = "dim" THEN rName \o <<"m","7","b","5">>
          ELSE IF baseType = "sus4" THEN rName \o <<"7","s","u","s","4">>
          ELSE IF baseType = "sus2" THEN rName \o <<"7","s","u","s","2">>
          ELSE IF baseType = "aug" THEN rName \o <<"7","(","#","5",")">>
          ELSE rName
     ELSE IF hasM7
     THEN IF baseType \in {"m", "no5m"} THEN rName \o <<"m","(","m","a","j","7",")">>
          ELSE IF baseType = "aug" THEN rName \o <<"m","a","j","7","(","#","5",")">>
          ELSE rName \o <<"m","a","j","7">>
     ELSE IF hasdim7 /\ baseType = "dim" THEN rName \o <<"d","i","m","7">>
     ELSE IF baseType = "m" THEN rName \o <<"m">>
          ELSE IF baseType = "dim" THEN rName \o <<"d","i","m">>
          ELSE IF baseType = "aug" THEN rName \o <<"a","u","g">>
          ELSE IF baseType = "sus4" THEN rName \o <<"s","u","s","4">>
          ELSE IF baseType = "sus2" THEN rName \o <<"s","u","s","2">>
          ELSE IF baseType = "5" THEN rName \o <<"5">>
          ELSE IF baseType = "no5m" THEN rName \o <<"m">>
          ELSE rName

\* the extension suffixes with the ninth always appended as "(add9)"
ExtendedName_appendAdd9(name0, ints, baseType) ==
  LET hasm7 == 10 \in ints
      hasM7 == 11 \in ints
      hasdim7 == 9 \in ints
      has7th == hasm7 \/ hasM7 \/ (hasdim7 /\ baseType = "dim")
      n1 == IF 2 \in ints /\ baseType # "sus2"
            THEN name0 \o <<"(","a","d","d","9",")">>
            ELSE name0
      n2 == IF 5 \in ints /\ baseType # "sus4"
            THEN n1 \o <<"(","a","d","d","1","1",")">>
            ELSE n1
      n3 == IF 9 \in ints /\ ~hasm7 /\ ~hasM7 /\ ~StrIncludes(n2, <<"d","i","m","7">>)
            THEN IF has7th THEN StrReplace(n2, "7", <<"1","3">>)
                 ELSE IF baseType \in {"Maj", "no5Maj"} THEN n2 \o <<"6">>
                 ELSE IF baseType \in {"m", "no5m"} THEN n2 \o <<"6">>
                 ELSE n2 \o <<"(","a","d","d","1","3",")">>
            ELSE n2
  IN IF baseType \in {"no5Maj", "no5m"} THEN n3 \o <<"(","n","o","5",")">> ELSE n3

\* the extension suffixes and the final (no5)
ExtendedName(name0, ints, baseType) ==
  LET hasm7 == 10 \in ints
      hasM7 == 11 \in ints
      hasdim7 == 9 \in ints
      has7th == hasm7 \/ hasM7 \/ (hasdim7 /\ baseType = "dim")
      n1 == IF 2 \in ints /\ baseType # "sus2"
            THEN IF has7th THEN StrReplace(name0, "7", <<"9">>)
                 ELSE name0 \o <<"(","a","d","d","9",")">>
            ELSE name0
      n2 == IF 5 \in ints /\ baseType # "sus4"
            THEN n1 \o <<"(","a","d","d","1","1",")">>
            ELSE n1
      n3 == IF 9 \in ints /\ ~hasm7 /\ ~hasM7 /\ ~StrIncludes(n2, <<"d","i","m","7">>)
            THEN IF has7th THEN StrReplace(n2, "7", <<"1","3">>)
                 ELSE IF baseType \in {"Maj", "no5Maj"} THEN n2 \o <<"6">>
                 ELSE IF baseType \in {"m", "no5m"} THEN n2 \o <<"6">>
                 ELSE n2 \o <<"(","a","d","d","1","3",")">>
            ELSE n2
  IN IF baseType \in {"no5Maj", "no5m"} THEN n3 \o <<"(","n","o","5",")">> ELSE n3

\* the intervals measured from the lowest sounding pitch class, whatever the
\* candidate root
IntervalsFrom_fromLowest(unique, rVal) ==
  {(unique[k] - unique[1] + 12) % 12 : k \in DOMAIN unique}

\* the intervals of the sounding pitch classes relative to a candidate root
IntervalsFrom(unique, rVal) == {(unique[k] - rVal + 12) % 12 : k \in DOMAIN unique}

BaseTypeOf(v, ints) == IF v = "list" THEN BaseTypeList(ints) ELSE BaseTypeHoles(ints)

\* the candidates array after the for loop: one entry per root whose
\* intervals match a shape, in ascending order of root
Candidates(v, unique, kRoot, kType) ==
  LET cand(rVal) ==
        LET ints == IntervalsFrom(unique, rVal)
            baseType == BaseTypeOf(v, ints)
            rName == getDisplayNote(rVal, kRoot, kType)
        IN [root |-> rVal,
            name |-> ExtendedName(SeventhName(rName, ints, baseType), ints, baseType)]
      valid == SelectSeq(unique, LAMBDA r : BaseTypeOf(v, IntervalsFrom(unique, r)) # "")
  IN [k \in 1..Len(valid) |-> cand(valid[k])]

\* the comparator without the diatonic-root rule
RankCompare_noDiatonic(a, b, hint, kRoot, kType) ==
  LET keyVal == getNoteVal(kRoot)
  IN IF hint # Null /\ a.root = hint /\ b.root # hint THEN -1
     ELSE IF hint # Null /\ b.root = hint /\ a.root # hint THEN 1
     ELSE IF a.root = keyVal /\ b.root # keyVal THEN -1
     ELSE IF b.root = keyVal /\ a.root # keyVal THEN 1
     ELSE Len(a.name) - Len(b.name)

\* the comparator without the current-key-root rule
RankCompare_noKeyRoot(a, b, hint, kRoot, kType) ==
  LET keyNotes == KeyNotes(kRoot, kType)
      aIn == Includes(keyNotes, a.root)
      bIn == Includes(keyNotes, b.root)
  IN IF hint # Null /\ a.root = hint /\ b.root # hint THEN -1
     ELSE IF hint # Null /\ b.root = hint /\ a.root # hint THEN 1
     ELSE IF aIn /\ ~bIn THEN -1
     ELSE IF bIn /\ ~aIn THEN 1
     ELSE Len(a.name) - Len(b.name)

\* the comparator without the hintRoot rule
RankCompare_noHint(a, b, hint, kRoot, kType) ==
  LET keyVal == getNoteVal(kRoot)
      keyNotes == KeyNotes(kRoot, kType)
      aIn == Includes(keyNotes, a.root)
      bIn == Includes(keyNotes, b.root)
  IN IF a.root = keyVal /\ b.root # keyVal THEN -1
     ELSE IF b.root = keyVal /\ a.root # keyVal THEN 1
     ELSE IF aIn /\ ~bIn THEN -1
     ELSE IF bIn /\ ~aIn THEN 1
     ELSE Len(a.name) - Len(b.name)

\* the comparator handed to candidates.sort: negative, zero or positive
RankCompare(a, b, hint, kRoot, kType) ==
  LET keyVal == getNoteVal(kRoot)
      keyNotes == KeyNotes(kRoot, kType)
      aIn == Includes(keyNotes, a.root)
      bIn == Includes(keyNotes, b.root)
  IN IF hint # Null /\ a.root = hint /\ b.root # hint THEN -1
     ELSE IF hint # Null /\ b.root = hint /\ a.root # hint THEN 1
     ELSE IF a.root = keyVal /\ b.root # keyVal THEN -1
     ELSE IF b.root = keyVal /\ a.root # keyVal THEN 1
     ELSE IF aIn /\ ~bIn THEN -1
     ELSE IF bIn /\ ~aIn THEN 1
     ELSE Len(a.name) - Len(b.name)

\* Array.prototype.sort is stable: insertion of the elements left to right
RECURSIVE SortCandidates(_, _, _, _)
SortCandidates(cands, hint, kRoot, kType) ==
  IF Len(cands) <= 1 THEN cands
  ELSE LET c == cands[Len(cands)]
           front == SortCandidates(SubSeq(cands, 1, Len(cands) - 1), hint, kRoot, kType)
           before == {k \in DOMAIN front : RankCompare(front[k], c, hint, kRoot, kType) <= 0}
           pos == IF before = {} THEN 0 ELSE CHOOSE k \in before : \A j \in before : j <= k
       IN SubSeq(front, 1, pos) \o <<c>> \o SubSeq(front, pos + 1, Len(front))

\* analyzedChord of a list of active pitch classes.  sub is the tag of the
\* sub-line ("Or" stands for "Or: " followed by the names in others)
Analyze(v, notes, hint, kRoot, kType) ==
  LET unique == SortedSeq(notes)
      noteNames == [k \in 1..Len(unique) |-> getDisplayNote(unique[k], kRoot, kType)]
      ranked == SortCandidates(Candidates(v, unique, kRoot, kType), hint, kRoot, kType)
  IN IF Len(unique) = 0
     THEN [main |-> <<"-">>, sub |-> "Ready", others |-> <<>>, notes |-> <<>>]
     ELSE IF Len(ranked) > 0
     THEN [main |-> ranked[1].name,
           sub |-> IF Len(ranked) > 1 THEN "Or" ELSE "Exact Match",
           others |-> [k \in 1..(Len(ranked) - 1) |-> ranked[k + 1].name],
           notes |-> noteNames]
     ELSE [main |-> <<"?">>, sub |-> "Unknown Shape", others |-> <<>>, notes |-> noteNames]

\* ------------------------------------------------------------------------
\* Inputs of the environment, cut down by the bounds
\* ------------------------------------------------------------------------
Prefix(s, n) == SubSeq(s, 1, IF n < Len(s) THEN n ELSE Len(s))

\* the key roots the user picks in the <select>
KeyRootInputs == Range(Prefix(KeyOptions, MaxKeyRoots))

\* the order in which the model takes the modifier buttons into account
ModOrder ==
  <<"no3", "add9", "no5", "sus4", "aug", "dim_mod", "add13", "add6", "sus2", "add11">>

\* the modifier buttons the user presses in variant v
ModInputs(v) ==
  Range(Prefix(ModOrder, MaxMods))
    \cap Range(IF v = "list" THEN ModButtonsList ELSE ModButtonsHoles)

\* the scale degrees (0-based) whose chord buttons the user presses
DegreeInputs == 0..((IF MaxDegrees < 7 THEN MaxDegrees ELSE 7) - 1)

\* the order in which the model takes the holes into account (positions in
\* ALL_HOLES): L8 and L6, bound to the same degree, come first
ClickOrder == <<1, 3, 2, 9, 4, 5, 6, 7, 8, 10, 11, 12, 13, 14, 15, 16>>

\* the holes the user clicks (positions in ALL_HOLES)
ClickInputs == Range(Prefix(ClickOrder, MaxClickHoles))

\* the MIDI note numbers the controller sends
MidiNoteOrder == <<60, 64, 61, 72, 67, 65, 62, 69, 71, 63, 66, 68, 70>>

MidiNoteInputs == Range(Prefix(MidiNoteOrder, MaxMidiNotes))

\* event.data of the messages the controller sends: none at all, truncated
\* ones, and three-byte ones with note-on (two channels), note-off and
\* control-change status
NoData == [hasData |-> FALSE, data |-> <<>>]

MidiStatusInputs == {144, 145, 128, 176}

MidiEvents ==
  {NoData}
  \cup {[hasData |-> TRUE, data |-> <<>>]}
  \cup {[hasData |-> TRUE, data |-> <<st>>] : st \in MidiStatusInputs}
  \cup {[hasData |-> TRUE, data |-> <<st, n>>] : st \in MidiStatusInputs, n \in MidiNoteInputs}
  \cup {[hasData |-> TRUE, data |-> <<st, n, vel>>] :
          st \in MidiStatusInputs, n \in MidiNoteInputs, vel \in {0, 100}}

\* ------------------------------------------------------------------------
\* State
\* ------------------------------------------------------------------------
VARIABLES
  variant,        \* "list" or "holes": which App component is mounted
  keyRoot,        \* useState keyRoot
  keyType,        \* useState keyType
  activeNotes,    \* list variant: useState activeNotes
  activeHoleIds,  \* holes variant: useState activeHoleIds
  hintRoot,       \* useState hintRoot
  selection,      \* useState selection; modifiers in Set insertion order
  handlerKey,     \* the key whose currentKeyNotes the onMIDIMessage closure
                  \* bound to the input captured; NoHandler before the first bind
  pendingInit,    \* keys captured by the initMIDI calls still awaiting
                  \* requestMIDIAccess(), oldest first
  devices,        \* the input ports present (midiAccess.inputs)
  midiConnected,  \* useState midiConnected
  last            \* the event handled last (history, read by no handler)

vars == <<variant, keyRoot, keyType, activeNotes, activeHoleIds, hintRoot,
          selection, handlerKey, pendingInit, devices, midiConnected, last>>

\* the input ports that exist
DeviceIds == 1..MaxDevices

NoHandler == [root |-> <<>>, type |-> "none"]

CurrentKey == [root |-> keyRoot, type |-> keyType]

\* useMemo currentKeyNotes
currentKeyNotes == KeyNotes(keyRoot, keyType)

\* the pitch classes that sound: the list itself, or the projection of the holes
activeNoteValues ==
  IF variant = "list" THEN Range(activeNotes)
  ELSE ActiveNoteValues(activeHoleIds, currentKeyNotes)

\* useMemo analyzedChord
analyzedChord == Analyze(variant, activeNoteValues, hintRoot, keyRoot, keyType)

\* isActive of the hole at position k of ALL_HOLES, as rendered
isActive(k) ==
  IF variant = "list"
  THEN Includes(activeNotes, currentKeyNotes[ALL_HOLES[k].degIndex + 1])
  ELSE ALL_HOLES[k].id \in activeHoleIds

PresetActive == selection.rootVal # Null /\ selection.quality # "null"

\* triName of the preset button of degree i (0-based)
triName(i, kRoot, kType) ==
  LET q == SCALES[kType].qualities[i + 1]
      noteName == getDisplayNote(KeyNotes(kRoot, kType)[i + 1], kRoot, kType)
  IN noteName \o (IF q = "m" THEN <<"m">> ELSE IF q = "dim" THEN <<"d","i","m">> ELSE <<>>)

\* sevName of the preset button of degree i (0-based): the suffix from the
\* quality, then the exceptions per mode and degree
sevName(i, kRoot, kType) ==
  LET q == SCALES[kType].qualities[i + 1]
      noteName == getDisplayNote(KeyNotes(kRoot, kType)[i + 1], kRoot, kType)
      s0 == IF q = "Maj" THEN <<"m","a","j","7">>
            ELSE IF q = "m" THEN <<"m","7">>
            ELSE IF q = "dim" THEN <<"m","7","b","5">>
            ELSE <<"7">>
      suffix == IF kType = "major"
                THEN IF i = 4 THEN <<"7">>
                     ELSE IF i = 6 THEN <<"m","7","b","5">>
                     ELSE s0
                ELSE IF i = 1 THEN <<"m","7","b","5">>
                     ELSE IF i = 2 THEN <<"m","a","j","7">>
                     ELSE IF i = 4 THEN <<"m","7">>
                     ELSE IF i = 6 THEN <<"7">>
                     ELSE s0
  IN noteName \o suffix

\* the history record: the event, the pitch class it carried, and whether it
\* met an active preset and a non-empty active set
Event(op, pc) ==
  [op |-> op, pc |-> pc, hadPreset |-> PresetActive, hadNotes |-> activeNoteValues # {}]

Init ==
  /\ variant \in {"list", "holes"}
  /\ keyRoot = <<"A">>
  /\ keyType = "minor"
  /\ activeNotes = <<>>
  /\ activeHoleIds = {}
  /\ hintRoot = Null
  /\ selection = NoSelection
  /\ handlerKey = NoHandler
  /\ pendingInit = << [root |-> <<"A">>, type |-> "minor"] >>
  /\ devices = {1}
  /\ midiConnected = FALSE
  /\ last = [op |-> "mount", pc |-> Null, hadPreset |-> FALSE, hadNotes |-> FALSE]

\* ------------------------------------------------------------------------
\* Handlers, as functions from the state they read to the state they set
\* ------------------------------------------------------------------------
\* resetAll without setHintRoot(null)
resetAll_keepHint ==
  [selection |-> NoSelection, hintRoot |-> hintRoot, activeNotes |-> <<>>, activeHoleIds |-> {}]

\* resetAll
resetAll == [selection |-> NoSelection, hintRoot |-> Null, activeNotes |-> <<>>, activeHoleIds |-> {}]

\* toggleMod: new Set(prev.modifiers), then delete or add
toggleMod(sel, mod) ==
  [sel EXCEPT !.modifiers =
     IF Includes(sel.modifiers, mod) THEN Without(sel.modifiers, {mod})
     ELSE Append(sel.modifiers, mod)]

\* isTriadActive / isSeventhActive of the button of degree i (0-based)
isChordActiveList(sel, rootVal, type) == sel.rootVal = rootVal /\ sel.type = type

isChordActiveHoles(sel, rootVal, q, type) ==
  sel.rootVal = rootVal /\ sel.quality = q /\ sel.type = type

\* selectChord with the modifiers of the previous selection carried over
selectChord_keepModifiers(st, rootVal, quality, type, active) ==
  IF active THEN resetAll
  ELSE [st EXCEPT !.selection = [rootVal |-> rootVal, quality |-> quality,
                                 type |-> type, modifiers |-> st.selection.modifiers],
                  !.hintRoot = rootVal]

\* selectChord
selectChord(st, rootVal, quality, type, active) ==
  IF active THEN resetAll
  ELSE [st EXCEPT !.selection = [rootVal |-> rootVal, quality |-> quality,
                                 type |-> type, modifiers |-> <<>>],
                  !.hintRoot = rootVal]

\* handleHoleClick without the setSelection call that clears the sidebar
handleHoleClickList_keepSelection(st, noteVal) ==
  LET exists == Includes(st.activeNotes, noteVal)
      newNotes == IF exists THEN Without(st.activeNotes, {noteVal})
                  ELSE Append(st.activeNotes, noteVal)
  IN [st EXCEPT !.activeNotes = newNotes,
                !.hintRoot = IF ~exists /\ Len(newNotes) = 1 THEN noteVal ELSE @]

\* list variant: handleHoleClick(degIndex)
handleHoleClickList(st, noteVal) ==
  LET exists == Includes(st.activeNotes, noteVal)
      newNotes == IF exists THEN Without(st.activeNotes, {noteVal})
                  ELSE Append(st.activeNotes, noteVal)
  IN [st EXCEPT !.selection = NoSelection,
                !.activeNotes = newNotes,
                !.hintRoot = IF ~exists /\ Len(newNotes) = 1 THEN noteVal ELSE @]

\* handleHoleClick toggling every hole bound to the clicked hole's pitch
handleHoleClickHoles_byPitch(st, holeId, noteVal) ==
  LET exists == holeId \in st.activeHoleIds
      same == HolesSounding({noteVal}, currentKeyNotes)
      next == IF exists THEN st.activeHoleIds \ same ELSE st.activeHoleIds \cup same
  IN [st EXCEPT !.selection = NoSelection,
                !.activeHoleIds = next,
                !.hintRoot = IF ~exists /\ Cardinality(next) = 1 THEN noteVal ELSE @]

\* holes variant: handleHoleClick(holeId, degIndex)
handleHoleClickHoles(st, holeId, noteVal) ==
  LET exists == holeId \in st.activeHoleIds
      next == IF exists THEN st.activeHoleIds \ {holeId} ELSE st.activeHoleIds \cup {holeId}
  IN [st EXCEPT !.selection = NoSelection,
                !.activeHoleIds = next,
                !.hintRoot = IF ~exists /\ Cardinality(next) = 1 THEN noteVal ELSE @]

\* data[i] of a Uint8Array: undefined past the end
ByteAt(data, i) == IF i + 1 <= Len(data) THEN data[i + 1] ELSE Undefined

\* data[0] & 0xf0 (undefined & 0xf0 is 0)
StatusNibble(b) == IF b = Undefined THEN 0 ELSE (b \div 16) * 16

\* note % 12 (undefined % 12 is NaN)
NoteVal(note) == IF note = Undefined THEN NaN ELSE note % 12

\* list variant: onMIDIMessage
onMIDIMessageList(st, ev) ==
  LET data == ev.data
      cmd == StatusNibble(ByteAt(data, 0))
      note == ByteAt(data, 1)
      velocity == ByteAt(data, 2)
      noteVal == NoteVal(note)
  IN IF ~ev.hasData THEN st
     ELSE IF cmd = 144 /\ velocity # Undefined /\ velocity > 0
     THEN [st EXCEPT !.selection = NoSelection,
                     !.activeNotes = Append(@, noteVal)]
     ELSE IF cmd = 128 \/ (cmd = 144 /\ velocity = 0)
     THEN [st EXCEPT !.selection = NoSelection,
                     \* n !== NaN holds of every n
                     !.activeNotes = IF noteVal = NaN THEN @ ELSE Without(@, {noteVal})]
     ELSE st

\* holes variant: onMIDIMessage; keyNotes is the currentKeyNotes the closure captured
onMIDIMessageHoles(st, ev, keyNotes) ==
  LET data == ev.data
      cmd == StatusNibble(ByteAt(data, 0))
      note == ByteAt(data, 1)
      velocity == ByteAt(data, 2)
      noteVal == NoteVal(note)
  IN IF ~ev.hasData \/ Len(data) < 3 THEN st
     ELSE IF cmd = 144 /\ velocity > 0
     THEN [st EXCEPT !.selection = NoSelection,
                     !.activeHoleIds = @ \cup HolesSounding({noteVal}, keyNotes)]
     ELSE IF cmd = 128 \/ (cmd = 144 /\ velocity = 0)
     THEN [st EXCEPT !.selection = NoSelection,
                     !.activeHoleIds = @ \ HolesSounding({noteVal}, keyNotes)]
     ELSE st

\* ------------------------------------------------------------------------
\* The selection effect, run after the render that follows a handler
\* ------------------------------------------------------------------------
\* list variant: useEffect [selection, currentKeyNotes, keyType]
useEffectSelectionList(st, kRoot, kType) ==
  IF st.selection.rootVal = Null \/ st.selection.quality = "null" THEN st
  ELSE [st EXCEPT !.activeNotes = TargetValsList(st.selection, kRoot, kType),
                  !.hintRoot = st.selection.rootVal]

\* holes variant: useEffect [selection, currentKeyNotes, keyType]
useEffectSelectionHoles(st, kRoot, kType) ==
  IF st.selection.rootVal = Null \/ st.selection.quality = "null" THEN st
  ELSE [st EXCEPT !.activeHoleIds =
                     HolesSounding(TargetValsHoles(st.selection, kRoot, kType),
                                   KeyNotes(kRoot, kType)),
                  !.hintRoot = st.selection.rootVal]

\* the state the handlers read and set
State ==
  [selection |-> selection, hintRoot |-> hintRoot,
   activeNotes |-> activeNotes, activeHoleIds |-> activeHoleIds]

\* commit what a handler set under key (kRoot, kType), then run the effect
Commit(st, kRoot, kType) ==
  \E set \in {st} :
  \E settled \in {IF variant = "list" THEN useEffectSelectionList(set, kRoot, kType)
                   ELSE useEffectSelectionHoles(set, kRoot, kType)} :
     /\ selection' = settled.selection
     /\ hintRoot' = settled.hintRoot
     /\ activeNotes' = settled.activeNotes
     /\ activeHoleIds' = settled.activeHoleIds
     /\ keyRoot' = kRoot
     /\ keyType' = kType
     /\ variant' = variant
     /\ UNCHANGED <<devices, midiConnected>>

\* ------------------------------------------------------------------------
\* Actions: one per event, handler and effect together
\* ------------------------------------------------------------------------
\* how a message reads by the MIDI contract, whatever the handler does with it
MessageClass(ev) ==
  LET cmd == StatusNibble(ByteAt(ev.data, 0))
      velocity == ByteAt(ev.data, 2)
  IN IF ~ev.hasData \/ Len(ev.data) < 3 THEN "midiMalformed"
     ELSE IF cmd = 144 /\ velocity > 0 THEN "midiOn"
     ELSE IF cmd = 128 \/ (cmd = 144 /\ velocity = 0) THEN "midiOff"
     ELSE "midiOther"

Count(s, x) == Cardinality({i \in DOMAIN s : s[i] = x})

\* the key <select> calling setKeyRoot(value) without resetAll()
KeyRootChange_noReset(k) ==
  /\ k # keyRoot
  /\ IF variant = "holes"
     THEN /\ Len(pendingInit) < MaxPending
          /\ pendingInit' = Append(pendingInit, [root |-> k, type |-> keyType])
     ELSE pendingInit' = pendingInit
  /\ Commit(State, k, keyType)
  /\ handlerKey' = handlerKey
  /\ last' = Event("keyRoot", Null)

\* the key <select> changes: setKeyRoot(value); resetAll().  In the holes
\* variant the MIDI effect depends on currentKeyNotes and calls initMIDI again
KeyRootChange(k) ==
  /\ k # keyRoot
  /\ IF variant = "holes"
     THEN /\ Len(pendingInit) < MaxPending
          /\ pendingInit' = Append(pendingInit, [root |-> k, type |-> keyType])
     ELSE pendingInit' = pendingInit
  /\ Commit(resetAll, k, keyType)
  /\ handlerKey' = handlerKey
  /\ last' = Event("keyRoot", Null)

\* the mode <select> changes: setKeyType(value); resetAll()
KeyTypeChange(t) ==
  /\ t # keyType
  /\ IF variant = "holes"
     THEN /\ Len(pendingInit) < MaxPending
          /\ pendingInit' = Append(pendingInit, [root |-> keyRoot, type |-> t])
     ELSE pendingInit' = pendingInit
  /\ Commit(resetAll, keyRoot, t)
  /\ handlerKey' = handlerKey
  /\ last' = Event("keyType", Null)

\* the RESET GRAPH button
Reset ==
  /\ Commit(resetAll, keyRoot, keyType)
  /\ UNCHANGED <<handlerKey, pendingInit>>
  /\ last' = Event("reset", Null)

\* a modifier button
ToggleMod(mod) ==
  /\ Commit([State EXCEPT !.selection = toggleMod(selection, mod)], keyRoot, keyType)
  /\ UNCHANGED <<handlerKey, pendingInit>>
  /\ last' = Event("toggleMod", Null)

\* the triad or seventh button of degree i (0-based)
SelectChord(i, type) ==
  LET rootVal == currentKeyNotes[i + 1]
      q == SCALES[keyType].qualities[i + 1]
      active == IF variant = "list" THEN isChordActiveList(selection, rootVal, type)
                ELSE isChordActiveHoles(selection, rootVal, q, type)
  IN /\ Commit(selectChord(State, rootVal, q, type, active), keyRoot, keyType)
     /\ UNCHANGED <<handlerKey, pendingInit>>
     /\ last' = Event(IF active THEN "deselect" ELSE "select", rootVal)

\* a click on the hole at position k of ALL_HOLES
HoleClick(k) ==
  LET hole == ALL_HOLES[k]
      noteVal == currentKeyNotes[hole.degIndex + 1]
  IN /\ Commit(IF variant = "list" THEN handleHoleClickList(State, noteVal)
               ELSE handleHoleClickHoles(State, hole.id, noteVal),
               keyRoot, keyType)
     /\ UNCHANGED <<handlerKey, pendingInit>>
     /\ last' = Event("click", noteVal)

\* requestMIDIAccess() of the oldest pending initMIDI resolves: its closure
\* becomes input.onmidimessage
MidiAccessGranted ==
  /\ pendingInit # <<>>
  /\ handlerKey' = Head(pendingInit)
  /\ pendingInit' = Tail(pendingInit)
  /\ midiConnected' = (devices # {})
  /\ UNCHANGED <<variant, keyRoot, keyType, activeNotes, activeHoleIds, hintRoot, selection,
                 devices>>
  /\ last' = Event("bind", Null)

\* the input delivers a message to the handler bound to it
MidiMessage(ev) ==
  LET noteVal == NoteVal(ByteAt(ev.data, 1))
  IN /\ handlerKey # NoHandler
     /\ variant = "list" /\ MessageClass(ev) = "midiOn" => Count(activeNotes, noteVal) < MaxDup
     /\ Commit(IF variant = "list" THEN onMIDIMessageList(State, ev)
               ELSE onMIDIMessageHoles(State, ev, KeyNotes(handlerKey.root, handlerKey.type)),
               keyRoot, keyType)
     /\ UNCHANGED <<handlerKey, pendingInit>>
     /\ last' = Event(MessageClass(ev), noteVal)

Next ==
  \/ \E k \in KeyRootInputs : KeyRootChange(k)
  \/ \E t \in {"major", "minor"} : KeyTypeChange(t)
  \/ Reset
  \/ \E mod \in ModInputs(variant) : ToggleMod(mod)
  \/ \E i \in DegreeInputs, type \in {"triad", "7th"} : SelectChord(i, type)
  \/ \E k \in ClickInputs : HoleClick(k)
  \/ MidiAccessGranted
  \/ \E ev \in MidiEvents : MidiMessage(ev)

Spec == Init /\ [][Next]_vars

\* ------------------------------------------------------------------------
\* Presets alone: every key, every chord button, the modifier buttons
\* ------------------------------------------------------------------------
PresetModInputs(v) ==
  Range(Prefix(ModOrder, MaxPresetMods))
    \cap Range(IF v = "list" THEN ModButtonsList ELSE ModButtonsHoles)

\* the settled state after the key was chosen: nothing active, the handler of
\* the holes variant re-bound (the list variant binds once, at mount)
InitKeyChosen ==
  /\ variant \in {"list", "holes"}
  /\ keyRoot \in Range(KeyOptions)
  /\ keyType \in {"major", "minor"}
  /\ activeNotes = <<>>
  /\ activeHoleIds = {}
  /\ hintRoot = Null
  /\ selection = NoSelection
  /\ handlerKey = IF variant = "list" THEN [root |-> <<"A">>, type |-> "minor"]
                  ELSE [root |-> keyRoot, type |-> keyType]
  /\ pendingInit = <<>>
  /\ devices = {1}
  /\ midiConnected = TRUE
  /\ last = [op |-> IF variant = "holes" \/ (keyRoot = <<"A">> /\ keyType = "minor") THEN "bind"
                    ELSE IF keyRoot = <<"A">> THEN "keyType" ELSE "keyRoot",
             pc |-> Null, hadPreset |-> FALSE, hadNotes |-> FALSE]

NextPreset ==
  \/ \E i \in 0..6, type \in {"triad", "7th"} : SelectChord(i, type)
  \/ \E mod \in PresetModInputs(variant) : ToggleMod(mod)

SpecPreset == InitKeyChosen /\ [][NextPreset]_vars

\* ------------------------------------------------------------------------
\* The analysis alone: every key, every small set of sounding pitch classes
\* ------------------------------------------------------------------------
SmallSets(U) == {S \in SUBSET U : Cardinality(S) <= MaxChordNotes}

\* the settled state after the notes of S were played over MIDI, together
\* with one more pitch class that was then released; hintRoot is none or
\* what an earlier first click left.  The holes variant holds scale notes only
InitSounding ==
  /\ variant \in {"list", "holes"}
  /\ keyRoot \in Range(KeyOptions)
  /\ keyType \in {"major", "minor"}
  /\ selection = NoSelection
  /\ hintRoot \in {Null} \cup Range(KeyNotes(keyRoot, keyType))
  /\ \E S \in SmallSets(IF variant = "list" THEN 0..11 ELSE Range(KeyNotes(keyRoot, keyType))) :
        /\ activeNotes = IF variant = "list" THEN SortedSeq(S) ELSE <<>>
        /\ activeHoleIds = IF variant = "list" THEN {}
                           ELSE HolesSounding(S, KeyNotes(keyRoot, keyType))
        /\ last = [op |-> "midiOff",
                   pc |-> CHOOSE p \in Range(KeyNotes(keyRoot, keyType)) \ S :
                            \A q \in Range(KeyNotes(keyRoot, keyType)) \ S : p <= q,
                   hadPreset |-> FALSE, hadNotes |-> TRUE]
  /\ handlerKey = IF variant = "list" THEN [root |-> <<"A">>, type |-> "minor"]
                  ELSE [root |-> keyRoot, type |-> keyType]
  /\ pendingInit = <<>>
  /\ devices = {1}
  /\ midiConnected = TRUE

NextAnalyze == Reset

SpecAnalyze == InitSounding /\ [][NextAnalyze]_vars

\* ------------------------------------------------------------------------
\* Ninth and thirteenth chords: the presets of every key, and over MIDI the
\* diminished seventh chords with a ninth (root, m3, d5, d7, M2) and the
\* dominant seventh chords on C and G with a thirteenth (root, M3, P5, m7, M6)
\* ------------------------------------------------------------------------
TallChords ==
  {{r, (r + 3) % 12, (r + 6) % 12, (r + 9) % 12, (r + 2) % 12} : r \in 0..11}
    \cup {{r, (r + 4) % 12, (r + 7) % 12, (r + 10) % 12, (r + 9) % 12} : r \in {0, 7}}

\* the settled state after the notes of a tall chord were played over MIDI in
\* ascending order; hintRoot is none or a chord note that a first click
\* left.  The holes variant holds scale notes only
InitTallChord ==
  /\ variant \in {"list", "holes"}
  /\ keyRoot \in Range(KeyOptions)
  /\ keyType \in {"major", "minor"}
  /\ selection = NoSelection
  /\ \E S \in TallChords :
        /\ variant = "holes" => S \subseteq Range(KeyNotes(keyRoot, keyType))
        /\ hintRoot \in {Null} \cup (S \cap Range(KeyNotes(keyRoot, keyType)))
        /\ activeNotes = IF variant = "list" THEN SortedSeq(S) ELSE <<>>
        /\ activeHoleIds = IF variant = "list" THEN {}
                           ELSE HolesSounding(S, KeyNotes(keyRoot, keyType))
        /\ last = [op |-> "midiOn",
                   pc |-> CHOOSE p \in S : \A q \in S : q <= p,
                   hadPreset |-> FALSE, hadNotes |-> TRUE]
  /\ handlerKey = IF variant = "list" THEN [root |-> <<"A">>, type |-> "minor"]
                  ELSE [root |-> keyRoot, type |-> keyType]
  /\ pendingInit = <<>>
  /\ devices = {1}
  /\ midiConnected = TRUE

InitNinth == InitKeyChosen \/ InitTallChord

NextNinth ==
  \/ \E i \in 0..6, type \in {"triad", "7th"} : SelectChord(i, type)
  \/ \E mod \in PresetModInputs(variant) : ToggleMod(mod)
  \/ Reset

SpecNinth == InitNinth /\ [][NextNinth]_vars

\* ------------------------------------------------------------------------
\* Devices: input ports come and go while the key is changed
\* ------------------------------------------------------------------------
\* midiAccess.onstatechange, assigned by initMIDI once access was granted;
\* before that a port event reaches no handler
onstatechange(portState) ==
  IF handlerKey # NoHandler THEN portState = "connected" ELSE midiConnected

\* an input port is plugged in
DeviceConnect(d) ==
  /\ d \notin devices
  /\ devices' = devices \cup {d}
  /\ midiConnected' = onstatechange("connected")
  /\ UNCHANGED <<variant, keyRoot, keyType, activeNotes, activeHoleIds, hintRoot, selection,
                 handlerKey, pendingInit>>
  /\ last' = Event("connect", Null)

\* an input port is unplugged
DeviceDisconnect(d) ==
  /\ d \in devices
  /\ devices' = devices \ {d}
  /\ midiConnected' = onstatechange("disconnected")
  /\ UNCHANGED <<variant, keyRoot, keyType, activeNotes, activeHoleIds, hintRoot, selection,
                 handlerKey, pendingInit>>
  /\ last' = Event("disconnect", Null)

\* the state after construction, with any of the ports plugged in
InitDevices ==
  /\ variant \in {"list", "holes"}
  /\ keyRoot = <<"A">>
  /\ keyType = "minor"
  /\ activeNotes = <<>>
  /\ activeHoleIds = {}
  /\ hintRoot = Null
  /\ selection = NoSelection
  /\ handlerKey = NoHandler
  /\ pendingInit = << [root |-> <<"A">>, type |-> "minor"] >>
  /\ devices \in SUBSET DeviceIds
  /\ midiConnected = FALSE
  /\ last = [op |-> "mount", pc |-> Null, hadPreset |-> FALSE, hadNotes |-> FALSE]

NextDevices ==
  \/ MidiAccessGranted
  \/ \E d \in DeviceIds : DeviceConnect(d)
  \/ \E d \in DeviceIds : DeviceDisconnect(d)
  \/ \E k \in KeyRootInputs : KeyRootChange(k)
  \/ \E t \in {"major", "minor"} : KeyTypeChange(t)

SpecDevices == InitDevices /\ [][NextDevices]_vars

TypeOK ==
  /\ variant \in {"list", "holes"}
  /\ keyType \in {"major", "minor"}
  /\ getNoteVal(keyRoot) \in 0..11
  /\ hintRoot \in 0..11 \cup {Null}
  /\ variant = "list" => activeHoleIds = {}
  /\ variant = "holes" => activeNotes = <<>>
  /\ devices \subseteq DeviceIds
  /\ midiConnected \in BOOLEAN

\* ------------------------------------------------------------------------
\* Properties
\* ------------------------------------------------------------------------
AllHoles == DOMAIN ALL_HOLES

\* the pitch a hole sounds under the current key
soundingPitch(k) == currentKeyNotes[ALL_HOLES[k].degIndex + 1]

\* C1: after a manual hole click and after a MIDI note-on or note-off the
\* ChordSelection is none: root, quality and extent none, no modifiers.
C1_SelectionClearedByManualInput ==
  last.op \in {"click", "midiOn", "midiOff"} =>
    /\ selection.rootVal = Null
    /\ selection.quality = "null"
    /\ selection.type = "null"
    /\ selection.modifiers = <<>>

\* a click or a MIDI note event arrived while a preset was active
C1_Witness ==
  /\ last.op \in {"click", "midiOn", "midiOff"}
  /\ last.hadPreset
  /\ activeNoteValues # {}

\* C2: whenever the active pitch set is empty, hintRoot is none.
C2_HintClearedWhenEmpty ==
  activeNoteValues = {} => hintRoot = Null

\* C3: from the empty state the first pitch class activated by a click or by a
\* MIDI note-on becomes hintRoot, and it stays hintRoot while further pitches
\* are added.
C3_FirstPitchIsHint ==
  [][ /\ ( /\ last'.op \in {"click", "midiOn"}
           /\ activeNoteValues = {} /\ selection = NoSelection /\ hintRoot = Null
           /\ activeNoteValues' # {} )
         => hintRoot' = last'.pc
      /\ ( /\ last'.op \in {"click", "midiOn"}
           /\ activeNoteValues # {} /\ ~PresetActive
           /\ activeNoteValues \subseteq activeNoteValues' /\ activeNoteValues # activeNoteValues' )
         => hintRoot' = hintRoot
    ]_vars

\* C4: after a change of the key root or of the mode the selection is none,
\* hintRoot is none and nothing is active: no pitch, no hole.
C4_KeyChangeResets ==
  last.op \in {"keyRoot", "keyType"} =>
    /\ selection = NoSelection
    /\ hintRoot = Null
    /\ activeNoteValues = {}
    /\ activeNotes = <<>>
    /\ activeHoleIds = {}
    /\ \A k \in AllHoles : ~isActive(k)

\* the key changed while a preset was active
C4_Witness ==
  /\ last.op \in {"keyRoot", "keyType"}
  /\ last.hadPreset
  /\ last.hadNotes

\* C6: a note-on with velocity > 0 makes pitch class n mod 12 a member of the
\* active pitch set, a note-off (or a note-on with velocity 0) makes it a
\* non-member, and the membership of every other pitch class is unchanged.
C6_MidiContract ==
  [][ /\ last'.op = "midiOn" =>
           /\ last'.pc \in activeNoteValues'
           /\ \A q \in (0..11) \ {last'.pc} : (q \in activeNoteValues') <=> (q \in activeNoteValues)
      /\ last'.op = "midiOff" =>
           /\ last'.pc \notin activeNoteValues'
           /\ \A q \in (0..11) \ {last'.pc} : (q \in activeNoteValues') <=> (q \in activeNoteValues)
    ]_vars

\* C7: after a MIDI note-on for pitch class p every hole that sounds p under
\* the current key is shown active, octave duplicates included; after the
\* note-off none of them is.
C7_MidiLightsEveryHole ==
  /\ last.op = "midiOn" => \A k \in AllHoles : soundingPitch(k) = last.pc => isActive(k)
  /\ last.op = "midiOff" => \A k \in AllHoles : soundingPitch(k) = last.pc => ~isActive(k)

\* C8: a message without data or with fewer than 3 bytes, and a message whose
\* status is neither note-on nor note-off, changes neither the selection nor
\* hintRoot nor the active set.
C8_MalformedIgnored ==
  [][ last'.op \in {"midiMalformed", "midiOther"} =>
        UNCHANGED <<selection, hintRoot, activeNotes, activeHoleIds>>
    ]_vars

\* the set of pitch classes of a chord selection: start from {0}, add the
\* third and fifth of the quality, for a seventh take the four diatonic
\* intervals instead, then omissions, alterations, sus additions and
\* extensions in that order, and transpose to the root
Synthesize(root, quality, extent, mods, keyNotes) ==
  LET tri == IF quality = "Maj" THEN {0, 4, 7}
             ELSE IF quality = "m" THEN {0, 3, 7}
             ELSE {0, 3, 6}
      d == IndexOf(keyNotes, root)
      sev == {(keyNotes[((d + j) % 7) + 1] - root + 12) % 12 : j \in {0, 2, 4, 6}}
      s0 == IF extent = "7th" THEN sev ELSE tri
      s1 == IF mods \cap {"no3", "sus2", "sus4"} # {} THEN s0 \ {3, 4} ELSE s0
      s2 == IF "no5" \in mods THEN s1 \ {6, 7} ELSE s1
      s3 == IF "aug" \in mods THEN (s2 \cup {8}) \ {6, 7} ELSE s2
      s4 == IF "dim_mod" \in mods THEN (s3 \cup {6}) \ {7, 8} ELSE s3
      s5 == s4 \cup (IF "sus4" \in mods THEN {5} ELSE {}) \cup (IF "sus2" \in mods THEN {2} ELSE {})
      s6 == s5 \cup (IF "add9" \in mods THEN {2} ELSE {})
               \cup (IF "add11" \in mods THEN {5} ELSE {})
               \cup (IF mods \cap {"add13", "add6"} # {} THEN {9} ELSE {})
  IN {(root + i) % 12 : i \in s6}

\* C5: while a preset is active the active pitch classes are exactly the
\* synthesized set of the selection (in the holes variant: the pitch classes of
\* the active holes), and hintRoot is the selection's root.
C5_PresetDeterminesActiveSet ==
  PresetActive =>
    /\ activeNoteValues =
         Synthesize(selection.rootVal, selection.quality, selection.type,
                    Range(selection.modifiers), currentKeyNotes)
    /\ hintRoot = selection.rootVal

\* the pitch class a chord name starts with: a letter and, if present, one
\* accidental; -1 when the name starts with no note name
NameRoot(name) ==
  IF Len(name) >= 2 /\ name[2] \in {"#", "b"} THEN getNoteVal(SubSeq(name, 1, 2))
  ELSE IF Len(name) >= 1 THEN getNoteVal(SubSeq(name, 1, 1))
  ELSE -1

\* C9 as claimed: every preset whose pitch set has at least 2 notes is
\* analysed, with its root as hint, to a name rooted on that root.
C9_RoundTrip ==
  (PresetActive /\ Cardinality(activeNoteValues) >= 2) =>
     NameRoot(analyzedChord.main) = selection.rootVal

\* the intervals of the sounding set relative to r match a shape of the detector
C9_RootIsCandidate(r) ==
  BaseTypeOf(variant, IntervalsFrom(SortedSeq(activeNoteValues), r)) # ""

\* C9 amended: every preset whose pitch set has at least 2 notes and matches a
\* shape predicate when read from its root is analysed, with its root as hint,
\* to a name rooted on that root.
C9_RoundTripWhenRootMatches ==
  (PresetActive /\ Cardinality(activeNoteValues) >= 2 /\ C9_RootIsCandidate(selection.rootVal)) =>
     NameRoot(analyzedChord.main) = selection.rootVal

\* a modified preset that another root could also name
C9_Witness ==
  /\ PresetActive
  /\ selection.modifiers # <<>>
  /\ Cardinality(activeNoteValues) >= 2
  /\ C9_RootIsCandidate(selection.rootVal)
  /\ analyzedChord.sub = "Or"
  /\ selection.rootVal # getNoteVal(keyRoot)

\* some shape of the detector holds of the intervals ints: diminished, minor,
\* augmented (holes variant), major, sus4, sus2, a third without any fifth,
\* or a bare fifth
C10_SomeShape(ints) ==
  LET third == 3 \in ints \/ 4 \in ints
  IN \/ 3 \in ints /\ 6 \in ints /\ 7 \notin ints
     \/ 3 \in ints /\ 7 \in ints
     \/ variant = "holes" /\ 4 \in ints /\ 8 \in ints
     \/ 4 \in ints /\ 7 \in ints
     \/ 5 \in ints /\ 7 \in ints /\ ~third
     \/ 2 \in ints /\ 7 \in ints /\ ~third
     \/ third /\ 7 \notin ints /\ 6 \notin ints /\ (variant = "holes" => 8 \notin ints)
     \/ 7 \in ints /\ Cardinality(ints) = 2

\* the roots of the sounding set from which some shape holds
C10_MatchingRoots ==
  {r \in activeNoteValues : C10_SomeShape({(p - r + 12) % 12 : p \in activeNoteValues})}

\* C10: the analysis is total: the no-chord sentinel exactly when nothing
\* sounds, the Unknown Shape sentinel exactly when something sounds and no
\* candidate root matches a shape, and otherwise a chord name rooted on one
\* of the matching roots.
C10_AnalysisTotal ==
  LET r == analyzedChord
  IN /\ (r.main = <<"-">> /\ r.sub = "Ready") <=> activeNoteValues = {}
     /\ (r.main = <<"?">> /\ r.sub = "Unknown Shape")
          <=> (activeNoteValues # {} /\ C10_MatchingRoots = {})
     /\ (activeNoteValues # {} /\ C10_MatchingRoots # {}) =>
          /\ NameRoot(r.main) \in C10_MatchingRoots
          /\ r.sub \in {"Exact Match", "Or"}
          /\ Len(r.others) = Cardinality(C10_MatchingRoots) - 1

\* three sounding pitch classes that no root names
C10_Witness ==
  /\ Cardinality(activeNoteValues) = 3
  /\ analyzedChord.main = <<"?">>
  /\ hintRoot \in activeNoteValues

\* the rank of a candidate name: hint match, key-root match, diatonic root,
\* length of the rendered name (smaller is better at each place)
C11_RankOf(name) ==
  LET r == NameRoot(name)
  IN << IF hintRoot # Null /\ r = hintRoot THEN 0 ELSE 1,
        IF r = getNoteVal(keyRoot) THEN 0 ELSE 1,
        IF r \in Range(currentKeyNotes) THEN 0 ELSE 1,
        Len(name) >>

\* x is not after y in the lexicographic order of ranks
C11_LexLeq(x, y) ==
  \E k \in 1..5 : /\ \A j \in 1..(k - 1) : x[j] = y[j]
                  /\ k = 5 \/ x[k] < y[k]

\* the names the analysis shows, primary first
C11_Names == <<analyzedChord.main>> \o analyzedChord.others

\* C11: the primary name followed by the alternates lists every valid
\* candidate exactly once, in non-decreasing rank order (hint match, then key
\* root, then diatonic root, then shorter name); when hintRoot is a valid
\* candidate root the primary name is rooted on it.
C11_Ranking ==
  C10_MatchingRoots # {} =>
    /\ \A i, j \in DOMAIN C11_Names :
         i < j => C11_LexLeq(C11_RankOf(C11_Names[i]), C11_RankOf(C11_Names[j]))
    /\ {NameRoot(C11_Names[i]) : i \in DOMAIN C11_Names} = C10_MatchingRoots
    /\ Len(C11_Names) = Cardinality(C10_MatchingRoots)
    /\ hintRoot \in C10_MatchingRoots => NameRoot(analyzedChord.main) = hintRoot

\* three candidates, among them the hint and, apart from it, the key root
C11_Witness ==
  /\ Cardinality(C10_MatchingRoots) = 3
  /\ hintRoot \in C10_MatchingRoots
  /\ getNoteVal(keyRoot) \in C10_MatchingRoots
  /\ hintRoot # getNoteVal(keyRoot)
  /\ NameRoot(analyzedChord.others[1]) = getNoteVal(keyRoot)

\* C12 as claimed: the two-note set {0,4} left by the MIDI note-ons 60 and 64
\* is analysed to the Unknown Shape sentinel.
C12_MajorThirdUnknown ==
  (activeNoteValues = {0, 4} /\ last.op = "midiOn") =>
     /\ analyzedChord.main = <<"?">>
     /\ analyzedChord.sub = "Unknown Shape"

\* C12 amended: the two-note set {0,4} left by the MIDI note-ons 60 and 64 is
\* analysed to the single name "C(no5)": root 0 matches the no-fifth shape,
\* root 4 matches none, and there is no alternate.
C12_MajorThirdIsNoFifth ==
  (activeNoteValues = {0, 4} /\ last.op = "midiOn") =>
     /\ analyzedChord.main = <<"C", "(", "n", "o", "5", ")">>
     /\ analyzedChord.sub = "Exact Match"
     /\ analyzedChord.others = <<>>
     /\ BaseTypeOf(variant, IntervalsFrom(<<0, 4>>, 4)) = ""

\* note-on 64 arrived while only pitch class 0 sounded
C12_Witness ==
  /\ activeNoteValues = {0, 4}
  /\ last.op = "midiOn"
  /\ last.pc = 4
  /\ last.hadNotes
  /\ variant = "list"

\* C13 as claimed: with {0,3,6} sounding and hintRoot 6, root 6 is a valid
\* (diminished) candidate and the primary name is rooted on it.
C13_HintOnGbIsPrimary ==
  (activeNoteValues = {0, 3, 6} /\ hintRoot = 6) =>
     /\ 6 \in {NameRoot(C11_Names[i]) : i \in DOMAIN C11_Names}
     /\ NameRoot(analyzedChord.main) = 6

\* C13 amended: with {0,3,6} sounding and hintRoot 6, the intervals from
\* root 6 are {0,6,9}, which match no shape: root 6 is no candidate, the
\* names shown are those rooted on 0 and on 3, and the primary name is the
\* one shown without any hint.
C13_HintOnGbIsNoCandidate ==
  (activeNoteValues = {0, 3, 6} /\ hintRoot = 6) =>
     /\ {NameRoot(C11_Names[i]) : i \in DOMAIN C11_Names} = {0, 3}
     /\ Len(C11_Names) = 2
     /\ analyzedChord = Analyze(variant, activeNoteValues, Null, keyRoot, keyType)

\* {0,3,6} sounds and the hint is 6
C13_Witness ==
  /\ activeNoteValues = {0, 3, 6}
  /\ hintRoot = 6
  /\ analyzedChord.sub = "Or"

\* with {0,3,6} sounding, the name rooted on 3 outranks the one rooted on 0:
\* 3 is the key root, or 3 is diatonic and 0 is not (0 is then no key root)
C14_EbFirst ==
  \/ getNoteVal(keyRoot) = 3
  \/ /\ 3 \in Range(currentKeyNotes)
     /\ 0 \notin Range(currentKeyNotes)

\* C14 as claimed: with {0,3,6} sounding and no hint the primary name is
\* "Cdim" in every key.
C14_CdimInEveryKey ==
  (activeNoteValues = {0, 3, 6} /\ hintRoot = Null) =>
     analyzedChord.main = <<"C", "d", "i", "m">>

\* C14 amended: with {0,3,6} sounding and no hint, "Cdim" is the primary name
\* except in the keys where root 3 outranks root 0 (key root 3, or 3 diatonic
\* and 0 not); there the primary name is the minor sixth without fifth on
\* root 3 and "Cdim" is the alternate.
C14_CdimUnlessEbOutranks ==
  (activeNoteValues = {0, 3, 6} /\ hintRoot = Null) =>
     /\ ~C14_EbFirst => /\ analyzedChord.main = <<"C", "d", "i", "m">>
                        /\ Len(analyzedChord.others) = 1
     /\ C14_EbFirst =>
          /\ analyzedChord.main =
               getDisplayNote(3, keyRoot, keyType) \o <<"m", "6", "(", "n", "o", "5", ")">>
          /\ analyzedChord.others = << <<"C", "d", "i", "m">> >>

\* {0,3,6} sounds without hint in a key where 3 is diatonic and 0 is not
C14_Witness ==
  /\ activeNoteValues = {0, 3, 6}
  /\ hintRoot = Null
  /\ getNoteVal(keyRoot) # 3
  /\ C14_EbFirst

\* the scale degree (0-based) of the selected root
C15_Degree == IndexOf(currentKeyNotes, selection.rootVal)

\* C15: in every key, a preset without modifiers is analysed to a primary
\* name identical to the label of its button: triName for a triad, sevName
\* for a seventh.
C15_PresetNameIsLabel ==
  (PresetActive /\ selection.modifiers = <<>>) =>
     analyzedChord.main =
       IF selection.type = "triad" THEN triName(C15_Degree, keyRoot, keyType)
       ELSE sevName(C15_Degree, keyRoot, keyType)

\* the half-diminished seventh preset of a flat key, after a modifier was
\* switched on and off again
C15_Witness ==
  /\ PresetActive
  /\ selection.modifiers = <<>>
  /\ selection.type = "7th"
  /\ selection.quality = "dim"
  /\ last.op = "toggleMod"
  /\ analyzedChord.main = sevName(C15_Degree, keyRoot, keyType)
  /\ StrIncludes(analyzedChord.main, <<"b", "m", "7", "b", "5">>)

\* a name with its first "7" turned into "9"
C16_SevenToNine(s) ==
  IF \E i \in DOMAIN s : s[i] = "7"
  THEN LET i == CHOOSE k \in DOMAIN s : s[k] = "7" /\ \A j \in 1..(k - 1) : s[j] # "7"
       IN [k \in DOMAIN s |-> IF k = i THEN "9" ELSE s[k]]
  ELSE s

\* C16: every candidate shown that has a seventh (minor 7th, major 7th, or
\* diminished 7th on a diminished triad) and the interval 2, and whose base
\* shape is not sus2, is named by its seventh-chord name with the first "7"
\* replaced by "9" (followed by "(add11)" and "(no5)" where those apply, never
\* by "(add9)"); the seventh preset on root 0 in C major with add9 sounds
\* {0,2,4,7,11}, has hintRoot 0 and is named "Cmaj9".
C16_NinthSubstitution ==
  /\ analyzedChord.sub \in {"Exact Match", "Or"} =>
       \A i \in DOMAIN C11_Names :
         LET name == C11_Names[i]
             r == NameRoot(name)
             ints == {(p - r + 12) % 12 : p \in activeNoteValues}
             base == BaseTypeOf(variant, ints)
             has7th == 10 \in ints \/ 11 \in ints \/ (9 \in ints /\ base = "dim")
             sev == SeventhName(getDisplayNote(r, keyRoot, keyType), ints, base)
             tail == (IF 5 \in ints /\ base # "sus4" THEN <<"(","a","d","d","1","1",")">> ELSE <<>>)
                     \o (IF base \in {"no5Maj", "no5m"} THEN <<"(","n","o","5",")">> ELSE <<>>)
         IN (has7th /\ 2 \in ints /\ base # "sus2") => name = C16_SevenToNine(sev) \o tail
  /\ ( /\ keyRoot = <<"C">> /\ keyType = "major"
       /\ selection = [rootVal |-> 0, quality |-> "Maj", type |-> "7th",
                       modifiers |-> <<"add9">>] )
     => /\ activeNoteValues = {0, 2, 4, 7, 11}
        /\ hintRoot = 0
        /\ analyzedChord.main = <<"C", "m", "a", "j", "9">>

\* the seventh preset on C in C major with add9
C16_Witness ==
  /\ keyRoot = <<"C">> /\ keyType = "major"
  /\ selection = [rootVal |-> 0, quality |-> "Maj", type |-> "7th", modifiers |-> <<"add9">>]
  /\ last.op = "toggleMod"
  /\ analyzedChord.main = <<"C", "m", "a", "j", "9">>

\* C17: a Major triad preset without modifiers sounds exactly the pitch
\* classes root, root+4 and root+7 (mod 12), for every root that some key
\* offers.
C17_MajorTriad ==
  (PresetActive /\ selection.quality = "Maj" /\ selection.type = "triad"
     /\ selection.modifiers = <<>>) =>
     LET root == selection.rootVal
     IN /\ activeNoteValues = {root, (root + 4) % 12, (root + 7) % 12}
        /\ variant = "list" => activeNotes = <<root, (root + 4) % 12, (root + 7) % 12>>

\* a Major triad whose third and fifth wrap past 11
C17_Witness ==
  /\ PresetActive /\ selection.quality = "Maj" /\ selection.type = "triad"
  /\ selection.modifiers = <<>>
  /\ last.op = "select"
  /\ selection.rootVal = 10
  /\ activeNoteValues = {10, 2, 5}

\* the semitone steps between successive key notes, the last one back to the root
C18_Steps ==
  [i \in 1..7 |-> (currentKeyNotes[(i % 7) + 1] - currentKeyNotes[i] + 12) % 12]

\* C18: in every key the key notes are 7 pairwise distinct pitch classes in
\* 0..11, the first being the key root, with steps 2,2,1,2,2,2,1 in major and
\* 2,1,2,2,1,2,2 in natural minor.
C18_ScalePattern ==
  /\ Len(currentKeyNotes) = 7
  /\ \A i \in 1..7 : currentKeyNotes[i] \in 0..11
  /\ \A i, j \in 1..7 : i # j => currentKeyNotes[i] # currentKeyNotes[j]
  /\ currentKeyNotes[1] = getNoteVal(keyRoot)
  /\ keyType = "major" => C18_Steps = <<2, 2, 1, 2, 2, 2, 1>>
  /\ keyType = "minor" => C18_Steps = <<2, 1, 2, 2, 1, 2, 2>>

\* a key whose scale wraps past 11, with a preset built on its notes
C18_Witness ==
  /\ getNoteVal(keyRoot) = 11
  /\ keyType = "minor"
  /\ PresetActive
  /\ currentKeyNotes = <<11, 1, 2, 4, 6, 7, 9>>

\* the shape of an interval set by the priority order diminished, minor,
\* augmented, major, sus4, sus2, no-fifth, power chord; "none" when no
\* predicate holds
C19_FirstShape(ints) ==
  LET m3 == 3 \in ints
      M3 == 4 \in ints
      d5 == 6 \in ints
      P5 == 7 \in ints
      a5 == 8 \in ints
  IN IF m3 /\ d5 /\ ~P5 THEN "dim"
     ELSE IF m3 /\ P5 THEN "m"
     ELSE IF M3 /\ a5 THEN "aug"
     ELSE IF M3 /\ P5 THEN "Maj"
     ELSE IF 5 \in ints /\ P5 /\ ~m3 /\ ~M3 THEN "sus4"
     ELSE IF 2 \in ints /\ P5 /\ ~m3 /\ ~M3 THEN "sus2"
     ELSE IF (m3 \/ M3) /\ ~P5 /\ ~d5 /\ ~a5 THEN "no5"
     ELSE IF P5 /\ Cardinality(ints) = 2 THEN "5"
     ELSE "none"

\* the base type the detector assigns, with the two no-fifth types merged
C19_Assigned(ints) ==
  LET b == BaseTypeOf(variant, ints)
  IN IF b = "" THEN "none" ELSE IF b \in {"no5Maj", "no5m"} THEN "no5" ELSE b

\* C19: for every candidate root of the sounding set the base type assigned
\* is that of the first predicate, in the fixed priority order, that holds of
\* the intervals relative to the root; the root is discarded exactly when none
\* holds.
C19_FirstMatch ==
  \A r \in activeNoteValues :
    LET ints == {(p - r + 12) % 12 : p \in activeNoteValues}
    IN /\ C19_Assigned(ints) = C19_FirstShape(ints)
       /\ (r \in {NameRoot(C11_Names[i]) : i \in DOMAIN C11_Names})
            <=> C19_FirstShape(ints) # "none"

\* C20: a seventh preset without modifiers sounds exactly the four key notes
\* at degrees i, i+2, i+4 and i+6 (mod 7); on the degree of diminished quality
\* the intervals are {0,3,6,10}, on degree V of a major key {0,4,7,10}.
C20_DiatonicSeventh ==
  (PresetActive /\ selection.type = "7th" /\ selection.modifiers = <<>>) =>
     LET root == selection.rootVal
         i == IndexOf(currentKeyNotes, root)
         ints == {(p - root + 12) % 12 : p \in activeNoteValues}
     IN /\ activeNoteValues = {currentKeyNotes[((i + j) % 7) + 1] : j \in {0, 2, 4, 6}}
        /\ Cardinality(activeNoteValues) = 4
        /\ variant = "list" =>
             activeNotes = [k \in 1..4 |-> currentKeyNotes[((i + 2 * (k - 1)) % 7) + 1]]
        /\ selection.quality = "dim" => ints = {0, 3, 6, 10}
        /\ (keyType = "major" /\ i = 4) => ints = {0, 4, 7, 10}

\* the seventh preset on degree V of a major key
C20_Witness ==
  /\ PresetActive /\ selection.type = "7th" /\ selection.modifiers = <<>>
  /\ keyType = "major"
  /\ IndexOf(currentKeyNotes, selection.rootVal) = 4
  /\ variant = "list"
  /\ last.op = "select"

\* the modifier Sets of at most MaxModSeq buttons of variant v, in every
\* insertion order
C21_ModSeqs(v) ==
  LET M == Range(IF v = "list" THEN ModButtonsList ELSE ModButtonsHoles)
      n == IF MaxModSeq < Cardinality(M) THEN MaxModSeq ELSE Cardinality(M)
  IN {ms \in UNION {[1..k -> M] : k \in 0..n} :
        \A i, j \in DOMAIN ms : i # j => ms[i] # ms[j]}

\* targetVals of the selection effect, as a set
C21_TargetVals(sel) ==
  IF variant = "list" THEN Range(TargetValsList(sel, keyRoot, keyType))
  ELSE TargetValsHoles(sel, keyRoot, keyType)

\* C21: the target pitch set computed for a preset with any modifiers equals
\* the set obtained in the fixed sequence omissions, alterations, sus
\* additions, extensions; it depends on which modifiers are selected only, not
\* on the order in which they were toggled.
C21_ModifierOrder ==
  PresetActive =>
    /\ C21_TargetVals(selection) =
         Synthesize(selection.rootVal, selection.quality, selection.type,
                    Range(selection.modifiers), currentKeyNotes)
    /\ selection.modifiers = <<>> =>
         \A ms \in C21_ModSeqs(variant) :
            C21_TargetVals([selection EXCEPT !.modifiers = ms]) =
              Synthesize(selection.rootVal, selection.quality, selection.type,
                         Range(ms), currentKeyNotes)

\* a seventh preset whose extension was toggled before the omission
C21_Witness ==
  /\ PresetActive
  /\ selection.type = "7th"
  /\ selection.modifiers = <<"add9", "no3">>
  /\ variant = "list"
  /\ last.op = "toggleMod"

\* C26: once access to the devices was granted, midiConnected is TRUE exactly
\* when at least one input device is present, and a connect or disconnect
\* notification changes nothing else.
C26_ConnectedIffDevicePresent ==
  handlerKey # NoHandler => (midiConnected <=> devices # {})

\* C22: in every key the quality the table gives degree i is the quality of
\* the stacked thirds of the scale: the triad of that quality on the i-th key
\* note is the set of the key notes at degrees i, i+2, i+4 (mod 7), and a
\* triad preset sounds exactly that set; C major has the notes
\* 0,2,4,5,7,9,11 and the qualities Maj,m,m,Maj,Maj,m,dim.
C22_QualitiesAreDiatonic ==
  /\ \A i \in 0..6 :
       LET root == currentKeyNotes[i + 1]
           q == SCALES[keyType].qualities[i + 1]
           triad == IF q = "Maj" THEN {0, 4, 7}
                    ELSE IF q = "m" THEN {0, 3, 7}
                    ELSE IF q = "dim" THEN {0, 3, 6}
                    ELSE {}
       IN /\ Range(BaseTriad(q)) = triad
          /\ {(root + d) % 12 : d \in triad}
               = {currentKeyNotes[((i + j) % 7) + 1] : j \in {0, 2, 4}}
  /\ (PresetActive /\ selection.type = "triad" /\ selection.modifiers = <<>>) =>
       LET i == IndexOf(currentKeyNotes, selection.rootVal)
       IN /\ selection.quality = SCALES[keyType].qualities[i + 1]
          /\ activeNoteValues = {currentKeyNotes[((i + j) % 7) + 1] : j \in {0, 2, 4}}
  /\ (keyRoot = <<"C">> /\ keyType = "major") =>
       /\ currentKeyNotes = <<0, 2, 4, 5, 7, 9, 11>>
       /\ SCALES[keyType].qualities = <<"Maj", "m", "m", "Maj", "Maj", "m", "dim">>

\* the diminished triad preset of C major
C22_Witness ==
  /\ keyRoot = <<"C">> /\ keyType = "major"
  /\ PresetActive /\ selection.type = "triad" /\ selection.modifiers = <<>>
  /\ selection.quality = "dim"
  /\ activeNoteValues = {11, 2, 5}

\* a name with its first "7" turned into "13"
C23_SevenToThirteen(s) ==
  IF \E i \in DOMAIN s : s[i] = "7"
  THEN LET i == CHOOSE k \in DOMAIN s : s[k] = "7" /\ \A j \in 1..(k - 1) : s[j] # "7"
       IN SubSeq(s, 1, i - 1) \o <<"1", "3">> \o SubSeq(s, i + 1, Len(s))
  ELSE s

\* C23: every candidate shown that has a seventh (minor or major) and the
\* interval 9 carries "13" in its name; without a ninth or an eleventh the
\* name is the seventh-chord name with the first "7" replaced by "13".
C23_ThirteenthSubstitution ==
  analyzedChord.sub \in {"Exact Match", "Or"} =>
    \A i \in DOMAIN C11_Names :
      LET name == C11_Names[i]
          r == NameRoot(name)
          ints == {(p - r + 12) % 12 : p \in activeNoteValues}
          base == BaseTypeOf(variant, ints)
          sev == SeventhName(getDisplayNote(r, keyRoot, keyType), ints, base)
          tail == IF base \in {"no5Maj", "no5m"} THEN <<"(","n","o","5",")">> ELSE <<>>
      IN ((10 \in ints \/ 11 \in ints) /\ 9 \in ints) =>
            /\ StrIncludes(name, <<"1", "3">>)
            /\ (2 \notin ints /\ 5 \notin ints) => name = C23_SevenToThirteen(sev) \o tail

\* C24: in every reachable state where no preset is active (the root is
\* none) the quality and the extent are none and the modifier set is empty.
C24_OnlyPresetWritesSelection ==
  selection.rootVal = Null =>
    /\ selection.quality = "null"
    /\ selection.type = "null"
    /\ selection.modifiers = <<>>

\* C25: a click on the preset button that is active leaves the selection
\* none, hintRoot none and nothing active; a click on any other preset button
\* leaves no modifier and exactly the pitches of the new chord active.
C25_PresetButton ==
  [][ /\ last'.op = "deselect" =>
           /\ PresetActive /\ selection.rootVal = last'.pc
           /\ selection' = NoSelection
           /\ hintRoot' = Null
           /\ activeNoteValues' = {}
           /\ \A k \in AllHoles : ~isActive(k)'
      /\ last'.op = "select" =>
           /\ ~(PresetActive /\ selection.rootVal = last'.pc /\ selection.type = selection'.type)
           /\ selection'.rootVal = last'.pc
           /\ selection'.modifiers = <<>>
           /\ activeNoteValues' = Synthesize(last'.pc, selection'.quality, selection'.type,
                                             {}, currentKeyNotes')
    ]_vars

\* a seventh preset was chosen while another preset was sounding
C25_Witness ==
  /\ last.op = "select"
  /\ last.hadPreset /\ last.hadNotes
  /\ selection.type = "7th" /\ selection.modifiers = <<>>
  /\ Cardinality(activeNoteValues) = 4

\* C27: in the holes variant every hole that a MIDI note-on for pitch class p
\* lights sounds p under the current key.
C27_NoteOnUsesCurrentKey ==
  [][ (variant = "holes" /\ last'.op = "midiOn") =>
        \A k \in AllHoles : (isActive(k)' /\ ~isActive(k)) => soundingPitch(k)' = last'.pc
    ]_vars

\* C28: whenever a preset is active its root is a note of the current key, and
\* a seventh preset without modifiers sounds the key notes at degrees d, d+2,
\* d+4, d+6 from the root's degree d.
C28_PresetRootInKey ==
  PresetActive =>
    LET d == IndexOf(currentKeyNotes, selection.rootVal)
    IN /\ d # -1
       /\ (selection.type = "7th" /\ selection.modifiers = <<>>) =>
            activeNoteValues = {currentKeyNotes[((d + j) % 7) + 1] : j \in {0, 2, 4, 6}}

\* a seventh preset of a key other than the initial one
C28_Witness ==
  /\ (keyRoot # <<"A">> \/ keyType # "minor")
  /\ PresetActive /\ selection.type = "7th" /\ selection.modifiers = <<>>
  /\ last.op = "select"

\* C29: in the holes variant a click on a hole changes the active state of
\* exactly that hole, and a second click on it restores the set of active holes.
C29_ClickTogglesOneHole ==
  [][ (variant = "holes" /\ last'.op = "click") =>
        \E k \in AllHoles :
          /\ soundingPitch(k) = last'.pc
          /\ isActive(k)' <=> ~isActive(k)
          /\ \A j \in AllHoles \ {k} : isActive(j)' <=> isActive(j)
          /\ handleHoleClickHoles(State', ALL_HOLES[k].id, last'.pc).activeHoleIds
               = activeHoleIds
    ]_vars

\* after a click, one of two holes bound to the same degree is active and
\* the other is not
C29_Witness ==
  /\ variant = "holes"
  /\ last.op = "click"
  /\ \E k, j \in AllHoles :
       /\ k # j
       /\ ALL_HOLES[k].degIndex = ALL_HOLES[j].degIndex
       /\ soundingPitch(k) = last.pc
       /\ isActive(k) /\ ~isActive(j)

\* C30: in the list variant activeNotes never holds the same pitch class twice.
C30_NoDuplicatePitch ==
  variant = "list" =>
    \A i, j \in DOMAIN activeNotes : i # j => activeNotes[i] # activeNotes[j]

====
